---- MODULE Spec2Model ----
(***************************************************************************)
(* Model of sos/collector/clusters/juju.py: the juju cluster profile.      *)
(* Strings are sequences of one-character strings, so that formatting,     *)
(* prefix tests, splitting and regular-expression matching are computed.   *)
(***************************************************************************)
EXTENDS Integers, Sequences, FiniteSets, TLC

VARIABLES option, juju, pc, models, filters, i, nodes, model_info, executed,
          exc, ret, text, cleaned

vars == <<option, juju, pc, models, filters, i, nodes, model_info, executed,
          exc, ret, text, cleaned>>

(***************************************************************************)
(* Bounds of the model.                                                    *)
(***************************************************************************)
MaxApps == 2
MaxText == 4

(***************************************************************************)
(* String helpers (Python str operations used by the source).              *)
(***************************************************************************)
Range(s) == {s[k] : k \in DOMAIN s}

\* str.startswith(prefix)
StartsWith(s, prefix) ==
    /\ Len(prefix) <= Len(s)
    /\ SubSeq(s, 1, Len(prefix)) = prefix

\* str.find(ch, from): first position >= from holding ch, Len(s)+1 if none
RECURSIVE Find(_, _, _)
Find(s, ch, from) ==
    IF from > Len(s) THEN Len(s) + 1
    ELSE IF s[from] = ch THEN from
    ELSE Find(s, ch, from + 1)

\* str.strip() for the blank character
RECURSIVE LStrip(_)
LStrip(s) == IF s # <<>> /\ Head(s) = " " THEN LStrip(Tail(s)) ELSE s

RECURSIVE RStrip(_)
RStrip(s) ==
    IF s # <<>> /\ s[Len(s)] = " " THEN RStrip(SubSeq(s, 1, Len(s) - 1)) ELSE s

Strip(s) == LStrip(RStrip(s))

\* str.split(","): always at least one piece
RECURSIVE Split(_)
Split(s) ==
    LET c == Find(s, ",", 1)
    IN  IF c > Len(s) THEN <<s>>
        ELSE <<SubSeq(s, 1, c - 1)>> \o Split(SubSeq(s, c + 1, Len(s)))

\* _parse_option_string
parse_option_string(strings) ==
    IF strings = <<>> THEN <<>>
    ELSE [k \in DOMAIN Split(strings) |-> Strip(Split(strings)[k])]

(***************************************************************************)
(* re.match(pattern, param) for patterns made of literal characters, the   *)
(* dot, the caret and the dollar: the match is anchored at the start and   *)
(* may stop before its end.                                                *)
(***************************************************************************)
RECURSIVE MatchAt(_, _, _, _)
MatchAt(pattern, p, param, j) ==
    IF p > Len(pattern) THEN TRUE
    ELSE IF pattern[p] = "^" THEN j = 1 /\ MatchAt(pattern, p + 1, param, j)
    ELSE IF pattern[p] = "$" THEN
        /\ \/ j = Len(param) + 1
           \/ j = Len(param) /\ param[j] = "\n"
        /\ MatchAt(pattern, p + 1, param, j)
    ELSE IF pattern[p] = "." THEN
        /\ j <= Len(param)
        /\ param[j] # "\n"
        /\ MatchAt(pattern, p + 1, param, j + 1)
    ELSE
        /\ j <= Len(param)
        /\ param[j] = pattern[p]
        /\ MatchAt(pattern, p + 1, param, j + 1)

re_match(pattern, param) == MatchAt(pattern, 1, param, 1)

(***************************************************************************)
(* _cleanup_juju_output: re.sub under re.MULTILINE, keeping group 2 of a   *)
(* pattern with two groups.  A match starts at a line start; group 1 runs  *)
(* over any characters other than the opening brace, newlines included;    *)
(* group 2 is the rest of that line, since the dot does not match a        *)
(* newline.  The newline is kept and the next match starts on the line     *)
(* that follows.                                                           *)
(***************************************************************************)
RECURSIVE cleanup_juju_output(_)
cleanup_juju_output(output) ==
    LET q == Find(output, "{", 1)
        r == Find(output, "\n", q)
    IN  IF q > Len(output) THEN <<>>
        ELSE IF r > Len(output) THEN SubSeq(output, q, Len(output))
        ELSE SubSeq(output, q, r)
                \o cleanup_juju_output(SubSeq(output, r + 1, Len(output)))

(***************************************************************************)
(* The status document and the Index.                                      *)
(*   document    : [applications : sequence of applications in document    *)
(*                  order, machines : sequence of machine identifiers]     *)
(*   application : [name, hasUnits, units, hasSubTo, subTo]; hasUnits and  *)
(*                  hasSubTo say whether the keys units and subordinate-to *)
(*                  are present                                            *)
(*   unit        : [name, machine, hasSubs, subordinates]; subordinates is *)
(*                  the sequence of keys of the unit's subordinates        *)
(*   Index       : [apps, units, machines], each a dict from an entity     *)
(*                  name to its list of Nodes                              *)
(***************************************************************************)
\* f"{model_name}:{machine}"
Node(model_name, machine) == model_name \o <<":">> \o machine

\* d[k] = v on a dict
Put(d, k, v) == [x \in (DOMAIN d) \cup {k} |-> IF x = k THEN v ELSE d[x]]

EmptyDict == [x \in {} |-> <<>>]

\* collections.defaultdict(dict), read at its three keys
EmptyIndex == [apps |-> EmptyDict, units |-> EmptyDict, machines |-> EmptyDict]

\* juju_status["applications"][name]
AppInfo(juju_status, name) ==
    LET a == CHOOSE a \in DOMAIN juju_status.applications :
                 juju_status.applications[a].name = name
    IN  juju_status.applications[a]

\* the loop over units.items() of _add_principals_to_index
RECURSIVE principal_units(_, _, _, _, _)
principal_units(index, acc, units, k, model_name) ==
    IF k > Len(units) THEN [index |-> index, nodes |-> acc]
    ELSE LET machine == units[k].machine
             node == Node(model_name, machine)
             idx == [index EXCEPT
                        !.units = Put(@, units[k].name, <<node>>),
                        !.machines = Put(@, machine, <<node>>)]
         IN  principal_units(idx, Append(acc, node), units, k + 1, model_name)

\* variant: an application with neither units nor subordinate-to is skipped
RECURSIVE principal_apps_omit(_, _, _, _)
principal_apps_omit(index, apps, a, model_name) ==
    IF a > Len(apps) THEN index
    ELSE LET units == IF apps[a].hasUnits THEN apps[a].units ELSE <<>>
             r == principal_units(index, <<>>, units, 1, model_name)
         IN  IF ~apps[a].hasUnits /\ ~apps[a].hasSubTo
             THEN principal_apps_omit(index, apps, a + 1, model_name)
             ELSE principal_apps_omit(
                      [r.index EXCEPT !.apps = Put(@, apps[a].name, r.nodes)],
                      apps, a + 1, model_name)

RECURSIVE principal_apps(_, _, _, _)
principal_apps(index, apps, a, model_name) ==
    IF a > Len(apps) THEN index
    ELSE LET units == IF apps[a].hasUnits THEN apps[a].units ELSE <<>>
             r == principal_units(index, <<>>, units, 1, model_name)
         IN  principal_apps([r.index EXCEPT !.apps = Put(@, apps[a].name, r.nodes)],
                            apps, a + 1, model_name)

\* _add_principals_to_index
add_principals_to_index(index, juju_status, model_name) ==
    principal_apps(index, juju_status.applications, 1, model_name)

\* variant: the prefix test without the slash
IsSubordinateKey_prefix(sub_key, app) == StartsWith(sub_key, app)

\* if sub_key.startswith(app + "/")
IsSubordinateKey(sub_key, app) == StartsWith(sub_key, app \o <<"/">>)

\* the loop over unit_info.get("subordinates", {}).items()
RECURSIVE subordinate_keys(_, _, _, _, _)
subordinate_keys(units_index, subs, k, app, node) ==
    IF k > Len(subs) THEN units_index
    ELSE subordinate_keys(
             IF IsSubordinateKey(subs[k], app)
             THEN Put(units_index, subs[k], <<node>>)
             ELSE units_index,
             subs, k + 1, app, node)

\* the loop over the parent's units.items()
RECURSIVE subordinate_units(_, _, _, _, _)
subordinate_units(units_index, units, k, app, model_name) ==
    IF k > Len(units) THEN units_index
    ELSE LET node == Node(model_name, units[k].machine)
             subs == IF units[k].hasSubs THEN units[k].subordinates ELSE <<>>
         IN  subordinate_units(subordinate_keys(units_index, subs, 1, app, node),
                               units, k + 1, app, model_name)

\* Does juju_status["applications"][parent]["units"] raise KeyError?
ParentUnitsMissing(juju_status, parent) == ~AppInfo(juju_status, parent).hasUnits

\* the loop over subordinate_to; st = [raised, index]
RECURSIVE subordinate_parents(_, _, _, _, _, _)
subordinate_parents(st, juju_status, app, parents, k, model_name) ==
    IF st.raised # "" \/ k > Len(parents) THEN st
    ELSE LET parent == parents[k]
             index == st.index
         IN  IF parent \notin DOMAIN index.apps
             THEN [st EXCEPT !.raised = "KeyError"]
             ELSE LET extended == [index EXCEPT
                          !.apps = Put(@, app, index.apps[app] \o index.apps[parent])]
                  IN  IF ParentUnitsMissing(juju_status, parent)
                      THEN [raised |-> "KeyError", index |-> extended]
                      ELSE subordinate_parents(
                               [raised |-> "",
                                index |-> [extended EXCEPT !.units =
                                    subordinate_units(@,
                                        AppInfo(juju_status, parent).units, 1,
                                        app, model_name)]],
                               juju_status, app, parents, k + 1, model_name)

RECURSIVE subordinate_apps(_, _, _, _)
subordinate_apps(st, juju_status, a, model_name) ==
    IF st.raised # "" \/ a > Len(juju_status.applications) THEN st
    ELSE LET info == juju_status.applications[a]
             subordinate_to == IF info.hasSubTo THEN info.subTo ELSE <<>>
         IN  subordinate_apps(
                 subordinate_parents(st, juju_status, info.name, subordinate_to,
                                     1, model_name),
                 juju_status, a + 1, model_name)

\* _add_subordinates_to_index; the result is [raised, index]
add_subordinates_to_index(index, juju_status, model_name) ==
    subordinate_apps([raised |-> "", index |-> index], juju_status, 1, model_name)

RECURSIVE machine_keys(_, _, _, _)
machine_keys(machines_index, machines, k, model_name) ==
    IF k > Len(machines) THEN machines_index
    ELSE machine_keys(
             Put(machines_index, machines[k], <<Node(model_name, machines[k])>>),
             machines, k + 1, model_name)

\* variant: the machine pass left out
add_machines_to_index_skip(index, juju_status, model_name) == index

\* _add_machines_to_index
add_machines_to_index(index, juju_status, model_name) ==
    [index EXCEPT !.machines = machine_keys(@, juju_status.machines, 1, model_name)]

\* the three passes of _get_model_info on a parsed document: [raised, index]
build_index(juju_status, model_name) ==
    LET p == add_principals_to_index(EmptyIndex, juju_status, model_name)
        s == add_subordinates_to_index(p, juju_status, model_name)
    IN  IF s.raised # "" THEN s
        ELSE [raised |-> "",
              index |-> add_machines_to_index(s.index, juju_status, model_name)]

(***************************************************************************)
(* The Filter Resolver.                                                    *)
(***************************************************************************)
MatchingNodes(dict, matched) == UNION {Range(dict[param]) : param \in matched}

\* _filter_by_pattern
filter_by_pattern(key, patterns, info) ==
    MatchingNodes(info[key],
        {param \in DOMAIN info[key] :
            \E k \in DOMAIN patterns : re_match(patterns[k], param)})

\* _filter_by_fixed
filter_by_fixed(key, patterns, info) ==
    MatchingNodes(info[key],
        {param \in DOMAIN info[key] :
            \E k \in DOMAIN patterns : patterns[k] = param})

FilterKeys == {"apps", "units", "machines"}

\* variant: the pattern policy for every category
filter_nodes_pattern(key, resource, info) == filter_by_pattern(key, resource, info)

\* the branch on key in get_nodes
filter_nodes(key, resource, info) ==
    IF key \in {"apps"} THEN filter_by_pattern(key, resource, info)
    ELSE filter_by_fixed(key, resource, info)

\* any(filters.values())
any_filter(f) == \E key \in FilterKeys : f[key] # <<>>

\* variant: the running set is reset for each grouping
collect_nodes_reset(acc, f, info) ==
    IF ~any_filter(f) THEN acc
    ELSE UNION {filter_nodes(key, f[key], info) : key \in FilterKeys}

\* variant: a grouping without filter contributes the Nodes of its applications
collect_nodes_all(acc, f, info) ==
    IF ~any_filter(f)
    THEN acc \cup UNION {Range(info.apps[app]) : app \in DOMAIN info.apps}
    ELSE acc \cup UNION {filter_nodes(key, f[key], info) : key \in FilterKeys}

\* the body of the loop over models, once model_info is built
collect_nodes(acc, f, info) ==
    IF ~any_filter(f) THEN acc
    ELSE acc \cup UNION {filter_nodes(key, f[key], info) : key \in FilterKeys}

(***************************************************************************)
(* The Status Fetcher.                                                     *)
(***************************************************************************)
cmd == <<"j", "u", "j", "u">>

format_option == <<"-", "-", "f", "o", "r", "m", "a", "t", " ", "j", "s", "o", "n">>

model_option(model_name) ==
    IF model_name # <<>> THEN <<"-", "m", " ">> \o model_name ELSE <<>>

\* f"{self.cmd} status {model_option} {format_option}"
status_cmd(model_name) ==
    cmd \o <<" ", "s", "t", "a", "t", "u", "s", " ">>
        \o model_option(model_name) \o <<" ">> \o format_option

\* f"{status_cmd} did not return usable output"
no_output_message(model_name) ==
    status_cmd(model_name)
        \o <<" ", "d", "i", "d", " ", "n", "o", "t", " ", "r", "e", "t", "u", "r", "n",
             " ", "u", "s", "a", "b", "l", "e", " ", "o", "u", "t", "p", "u", "t">>

\* The text of a document as juju prints it: one line.  The document itself
\* is carried next to its text.
Payload == <<"{", "d", "}">>

\* json.loads: blank space around the payload is ignored, anything else is
\* a decode error
json_loads(t, doc) ==
    IF Strip(t) \in {Payload, Payload \o <<"\n">>}
    THEN [raised |-> "", doc |-> doc]
    ELSE [raised |-> "JSONDecodeError", doc |-> doc]

\* variant: a failed status command is taken as an empty document
execute_juju_status_swallow(res, model_name) ==
    IF res.status = 0
    THEN json_loads(cleanup_juju_output(res.output), res.doc)
    ELSE [raised |-> "", doc |-> res.doc]

\* _execute_juju_status on the result res of exec_primary_cmd
execute_juju_status(res, model_name) ==
    IF res.status = 0
    THEN json_loads(cleanup_juju_output(res.output), res.doc)
    ELSE [raised |-> "Exception", doc |-> res.doc]

\* _get_model_info: [raised, index]
get_model_info(res, model_name) ==
    LET juju_status == execute_juju_status(res, model_name)
    IN  IF juju_status.raised # ""
        THEN [raised |-> juju_status.raised, index |-> EmptyIndex]
        ELSE build_index(juju_status.doc, model_name)

(***************************************************************************)
(* Inputs: status documents, command results and option strings.           *)
(***************************************************************************)
AppNames == {<<"s">>, <<"s", "2">>, <<"p">>}

UnitMachines == {<<"0">>, <<"1", "0">>}

Container == <<"0", "/", "l", "x", "d", "/", "1">>

MachineSections == {<<>>, <<<<"0">>>>, <<<<"1", "0">>, Container>>}

UnitName(app, n) == app \o <<"/", n>>

NoSubs == [has |-> FALSE, keys |-> <<>>]

\* the subordinates recorded under a unit of app: none, one, or two keys
SubOptions(app) ==
    LET others == {UnitName(o, "0") : o \in AppNames \ {app}}
        first == CHOOSE k \in others : \A o \in others : Len(k) <= Len(o)
    IN  {NoSubs}
            \cup {[has |-> TRUE, keys |-> <<k>>] : k \in others}
            \cup {[has |-> TRUE, keys |-> <<first, k>>] : k \in others \ {first}}

MkUnit(app, n, machine, subs) ==
    [name |-> UnitName(app, n), machine |-> machine,
     hasSubs |-> subs.has, subordinates |-> subs.keys]

MkApp(name, hasUnits, units, hasSubTo, subTo) ==
    [name |-> name, hasUnits |-> hasUnits, units |-> units,
     hasSubTo |-> hasSubTo, subTo |-> subTo]

\* an application with units and no subordinate-to
Principals(name) ==
    {MkApp(name, TRUE, <<MkUnit(name, "0", m, subs)>>, FALSE, <<>>) :
        m \in UnitMachines, subs \in SubOptions(name)}
    \cup
    {MkApp(name, TRUE,
           <<MkUnit(name, "0", <<"0">>, NoSubs), MkUnit(name, "1", <<"1", "0">>, subs)>>,
           FALSE, <<>>) :
        subs \in {x \in SubOptions(name) : Len(x.keys) = 1}}

\* parents lists over the other applications of the document
ParentLists(others) ==
    {<<o>> : o \in others}
        \cup {<<x[1], x[2]>> : x \in {y \in others \X others : y[1] # y[2]}}

\* an application without units: subordinate to others, or with no presence
Subordinates(name, others) ==
    {MkApp(name, FALSE, <<>>, TRUE, parents) : parents \in ParentLists(others)}
        \cup {MkApp(name, FALSE, <<>>, FALSE, <<>>)}

Shapes(name, others) == Principals(name) \cup Subordinates(name, others)

Injective(q) == \A x, y \in DOMAIN q : x # y => q[x] # q[y]

NameSeqs(n) == {q \in [1..n -> AppNames] : Injective(q)}

RECURSIVE AppSeqs(_, _)
AppSeqs(q, k) ==
    IF k = 0 THEN {<<>>}
    ELSE {Append(pre, sh) : pre \in AppSeqs(q, k - 1),
                            sh \in Shapes(q[k], Range(q) \ {q[k]})}

\* the subordinate keys of a document, one entry per unit that lists them
SubKeyEntries(apps) ==
    {e \in (DOMAIN apps) \X (1..2) \X (1..2) :
        /\ e[2] \in DOMAIN apps[e[1]].units
        /\ e[3] \in DOMAIN apps[e[1]].units[e[2]].subordinates}

SubKeyAt(apps, e) == apps[e[1]].units[e[2]].subordinates[e[3]]

\* a subordinate unit is hosted by one unit only
UniqueSubKeys(apps) ==
    \A e1, e2 \in SubKeyEntries(apps) :
        SubKeyAt(apps, e1) = SubKeyAt(apps, e2) => e1 = e2

Docs ==
    {[applications |-> apps, machines |-> ms] :
        apps \in {x \in UNION {AppSeqs(q, Len(q)) :
                        q \in UNION {NameSeqs(n) : n \in 0..MaxApps}} :
                    UniqueSubKeys(x)},
        ms \in MachineSections}

\* documents of the scenarios: a principal with its subordinate, an empty
\* model, three principals, a subordinate of an application without units
SampleDocs ==
    {[applications |->
         <<MkApp(<<"p">>, TRUE,
                 <<MkUnit(<<"p">>, "0", <<"1", "0">>,
                          [has |-> TRUE, keys |-> <<UnitName(<<"s">>, "0")>>])>>,
                 FALSE, <<>>),
           MkApp(<<"s">>, FALSE, <<>>, TRUE, <<<<"p">>>>)>>,
      machines |-> <<<<"1", "0">>>>],
     [applications |-> <<>>, machines |-> <<Container>>],
     [applications |->
         <<MkApp(<<"s">>, TRUE, <<MkUnit(<<"s">>, "0", <<"0">>, NoSubs)>>, FALSE, <<>>),
           MkApp(<<"s", "2">>, TRUE,
                 <<MkUnit(<<"s", "2">>, "0", <<"1", "0">>, NoSubs)>>, FALSE, <<>>),
           MkApp(<<"p">>, TRUE, <<MkUnit(<<"p">>, "0", Container, NoSubs)>>, FALSE, <<>>)>>,
      machines |-> <<<<"0">>, <<"1", "0">>, Container>>],
     [applications |->
         <<MkApp(<<"s">>, FALSE, <<>>, TRUE, <<<<"p">>>>),
           MkApp(<<"p">>, FALSE, <<>>, FALSE, <<>>)>>,
      machines |-> <<>>]}

Preamble == <<"w", "\n">>

\* what exec_primary_cmd gives for a status command
Failed == [status |-> 1, output |-> <<>>, doc |-> [applications |-> <<>>, machines |-> <<>>]]

Results(docs, preambles) ==
    {[status |-> 0, output |-> pre \o Payload \o <<"\n">>, doc |-> d] :
        d \in docs, pre \in preambles} \cup {Failed}

ModelsOptions == {<<>>, <<"a">>, <<"a", ",", " ", "b">>}

AppsOptions == {<<>>, <<"s">>, <<"^", "p">>, <<"s", "$", ",", ".", "2">>}

UnitsOptions == {<<>>, <<"s", "/", "0">>, <<"p", ",", "p", "/", "0">>}

MachinesOptions == {<<>>, <<"0">>, Container, <<"1", "0", ",", " ", "1">>}

Options(ms, as, us, mcs) ==
    [models : ms, apps : as, units : us, machines : mcs]

\* the groupings get_nodes will ask for
Requested(o) ==
    IF parse_option_string(o.models) = <<>> THEN {<<>>}
    ELSE Range(parse_option_string(o.models))

Idle ==
    /\ pc = "idle"
    /\ models = <<>>
    /\ filters = [apps |-> <<>>, units |-> <<>>, machines |-> <<>>]
    /\ i = 0
    /\ nodes = {}
    /\ model_info = EmptyIndex
    /\ executed = <<>>
    /\ exc = <<>>
    /\ ret = <<>>
    /\ text = <<>>
    /\ cleaned = <<>>

\* every option string, on the documents of the scenarios
InitOptions ==
    /\ option \in Options(ModelsOptions, AppsOptions, UnitsOptions, MachinesOptions)
    /\ juju \in [Requested(option) -> Results(SampleDocs, {<<>>, Preamble})]
    /\ Idle

\* every document of the family, on a few option strings
InitDocs ==
    /\ option \in Options({<<"a">>}, {<<"s">>}, {<<>>}, {<<>>})
    /\ juju \in [Requested(option) -> Results(Docs, {Preamble})]
    /\ Idle

Init == InitOptions \/ InitDocs

(***************************************************************************)
(* get_nodes.                                                              *)
(***************************************************************************)
get_nodes_begin ==
    /\ pc = "idle"
    /\ models' = IF parse_option_string(option.models) = <<>>
                 THEN <<<<>>>>
                 ELSE parse_option_string(option.models)
    /\ filters' = [apps |-> parse_option_string(option.apps),
                   units |-> parse_option_string(option.units),
                   machines |-> parse_option_string(option.machines)]
    /\ nodes' = {}
    /\ i' = 1
    /\ pc' = "loop"
    /\ UNCHANGED <<option, juju, model_info, executed, exc, ret, text, cleaned>>

\* one turn of the loop over models: the status command succeeds and the
\* Index is built and filtered
get_nodes_model ==
    /\ pc = "loop"
    /\ i <= Len(models)
    /\ LET info == get_model_info(juju[models[i]], models[i])
       IN  /\ info.raised = ""
           /\ model_info' = info.index
           /\ nodes' = collect_nodes(nodes, filters, info.index)
    /\ executed' = Append(executed, status_cmd(models[i]))
    /\ i' = i + 1
    /\ UNCHANGED <<option, juju, pc, models, filters, exc, ret, text, cleaned>>

\* the status command exits non-zero: _execute_juju_status raises
get_nodes_status_fails ==
    /\ pc = "loop"
    /\ i <= Len(models)
    /\ get_model_info(juju[models[i]], models[i]).raised = "Exception"
    /\ executed' = Append(executed, status_cmd(models[i]))
    /\ exc' = no_output_message(models[i])
    /\ pc' = "raised"
    /\ UNCHANGED <<option, juju, models, filters, i, nodes, model_info, ret,
                   text, cleaned>>

\* json.loads or a pass of the Indexer raises
get_nodes_index_raises ==
    /\ pc = "loop"
    /\ i <= Len(models)
    /\ LET info == get_model_info(juju[models[i]], models[i])
       IN  /\ info.raised \notin {"", "Exception"}
           /\ exc' = <<info.raised>>
    /\ executed' = Append(executed, status_cmd(models[i]))
    /\ pc' = "raised"
    /\ UNCHANGED <<option, juju, models, filters, i, nodes, model_info, ret,
                   text, cleaned>>

\* list(nodes): the set in some order
ListOf(set) == {q \in [1..Cardinality(set) -> set] : Injective(q)}

get_nodes_return ==
    /\ pc = "loop"
    /\ i > Len(models)
    /\ ret' \in ListOf(nodes)
    /\ pc' = "returned"
    /\ UNCHANGED <<option, juju, models, filters, i, nodes, model_info,
                   executed, exc, text, cleaned>>

Next ==
    \/ get_nodes_begin
    \/ get_nodes_model
    \/ get_nodes_status_fails
    \/ get_nodes_index_raises
    \/ get_nodes_return

Spec == Init /\ [][Next]_vars

(***************************************************************************)
(* The Output Normalizer on its own.                                       *)
(***************************************************************************)
TextChars == {"{", "\n", "a"}

Texts == UNION {[1..n -> TextChars] : n \in 0..MaxText}

InitClean ==
    /\ text \in Texts
    /\ cleaned = <<>>
    /\ pc = "raw"
    /\ option = [models |-> <<>>, apps |-> <<>>, units |-> <<>>, machines |-> <<>>]
    /\ juju = [m \in {<<>>} |-> Failed]
    /\ models = <<>>
    /\ filters = [apps |-> <<>>, units |-> <<>>, machines |-> <<>>]
    /\ i = 0
    /\ nodes = {}
    /\ model_info = EmptyIndex
    /\ executed = <<>>
    /\ exc = <<>>
    /\ ret = <<>>

\* self._cleanup_juju_output(text)
normalize ==
    /\ pc = "raw"
    /\ cleaned' = cleanup_juju_output(text)
    /\ pc' = "clean"
    /\ UNCHANGED <<option, juju, models, filters, i, nodes, model_info,
                   executed, exc, ret, text>>

\* the Normalizer run on its own output
normalize_again ==
    /\ pc = "clean"
    /\ text' = cleaned
    /\ cleaned' = cleanup_juju_output(cleaned)
    /\ pc' = "again"
    /\ UNCHANGED <<option, juju, models, filters, i, nodes, model_info,
                   executed, exc, ret>>

NextClean == normalize \/ normalize_again

SpecClean == InitClean /\ [][NextClean]_vars

(***************************************************************************)
(* Properties.                                                             *)
(***************************************************************************)
\* the grouping whose Index was built last, and its document
Built == i > 1
LastModel == models[i - 1]
LastDoc == juju[LastModel].doc
LastApps == LastDoc.applications

\* the Index of a requested grouping
IndexOf(g) == build_index(juju[g].doc, g).index

\* the matching policy of a category, stated on names
Satisfies(c, term, name) == IF c = "apps" THEN re_match(term, name) ELSE term = name

\* the Nodes the k-th grouping contributes, by the definition of the claim
Contribution(k) ==
    LET index == IndexOf(models[k])
    IN  UNION {UNION {Range(index[c][e]) :
                        e \in {x \in DOMAIN index[c] :
                                \E t \in Range(filters[c]) : Satisfies(c, t, x)}} :
                 c \in {d \in FilterKeys : filters[d] # <<>>}}

\* C1: with at least one non-empty category, the running set after each
\* grouping is the union, over the groupings processed so far and the
\* categories with terms, of the Nodes of the entities a term matches; the
\* returned list holds exactly that set for all groupings, each Node once.
C1_Theorem ==
    (pc \in {"loop", "returned"} /\ any_filter(filters)) =>
        /\ nodes = UNION {Contribution(k) : k \in 1..(i - 1)}
        /\ pc = "returned" =>
            /\ i - 1 = Len(models)
            /\ Range(ret) = nodes
            /\ Len(ret) = Cardinality(nodes)

C1_Witness ==
    /\ pc = "returned"
    /\ Len(models) = 2
    /\ filters.apps # <<>>
    /\ filters.machines # <<>>
    /\ \E x, y \in Range(ret) : x[1] = "a" /\ y[1] = "b"
    /\ Contribution(1) # {}
    /\ Contribution(2) # {}
    /\ filter_nodes("apps", filters.apps, model_info)
           # filter_nodes("machines", filters.machines, model_info)

C3_Claim ==
    (/\ pc = "returned"
     /\ option.models = <<>> /\ option.apps = <<>>
     /\ option.units = <<>> /\ option.machines = <<>>) =>
        \A app \in DOMAIN model_info.apps :
            Range(model_info.apps[app]) \subseteq Range(ret)

Contains(str, sub) ==
    \E k \in 1..(Len(str) - Len(sub) + 1) : SubSeq(str, k, k + Len(sub) - 1) = sub

\* C4: when the status command of the current grouping exits non-zero, the
\* step taken ends get_nodes in an error whose message starts with the
\* status command and names the grouping scope; nothing is returned, the
\* running set is left as it was, no Index is built for the grouping, and
\* no step follows, so no later grouping is queried.
C4_Theorem ==
    [][/\ pc # "raised"
       /\ (pc = "loop" /\ i <= Len(models) /\ juju[models[i]].status # 0) =>
            /\ pc' = "raised"
            /\ StartsWith(exc', status_cmd(models[i]))
            /\ models[i] # <<>> => Contains(exc', <<" ", "-", "m", " ">> \o models[i] \o <<" ">>)
            /\ ret' = <<>>
            /\ i' = i
            /\ model_info' = model_info
            /\ Len(executed') = i]_vars

C4_Witness ==
    /\ pc = "raised"
    /\ i = 2
    /\ juju[models[2]].status # 0
    /\ nodes # {}
    /\ ret = <<>>
    /\ Len(executed) = 2
    /\ Contains(exc, <<"-", "m", " ", "b", " ">>)

\* the part of a unit name before its first slash
OwnerOf(unit) == SubSeq(unit, 1, Find(unit, "/", 1) - 1)

AppIndexes == DOMAIN LastApps
IsSubordinate(a) == ~LastApps[a].hasUnits /\ LastApps[a].hasSubTo
ParentsOf(a) == {p \in AppIndexes : LastApps[p].name \in Range(LastApps[a].subTo)}
DirectUnits == UNION {{u.name : u \in Range(LastApps[a].units)} : a \in AppIndexes}

\* the subordinate units the document attributes to application a: keys
\* under a unit of one of its parents whose owner is a
SubUnitsOf(a) ==
    {k \in UNION {Range(u.subordinates) :
                    u \in UNION {Range(LastApps[p].units) : p \in ParentsOf(a)}} :
        OwnerOf(k) = LastApps[a].name}

\* C5: in a built Index, for a subordinate application S of P and a unit u
\* of P whose subordinates hold a key k of S, units[k] is the Node of u,
\* apps[S] holds every Node of apps[P], filtering by the apps term S or the
\* units term k gives that Node, and the units category holds, besides the
\* direct units, only keys whose owner is a subordinate of the hosting
\* application, whatever the order of the applications in the document.
C5_Theorem ==
    Built =>
        /\ \A a \in AppIndexes : IsSubordinate(a) =>
              \A p \in ParentsOf(a) :
                  /\ Range(model_info.apps[LastApps[p].name])
                        \subseteq Range(model_info.apps[LastApps[a].name])
                  /\ \A u \in Range(LastApps[p].units) :
                        \A k \in Range(u.subordinates) :
                            OwnerOf(k) = LastApps[a].name =>
                              /\ k \in DOMAIN model_info.units
                              /\ model_info.units[k] = model_info.units[u.name]
                              /\ model_info.units[k] = <<LastModel \o <<":">> \o u.machine>>
                              /\ filter_nodes("units", <<k>>, model_info)
                                    = Range(model_info.units[u.name])
                              /\ Range(model_info.units[u.name]) \subseteq
                                    filter_nodes("apps", <<LastApps[a].name>>, model_info)
        /\ DOMAIN model_info.units =
              DirectUnits \cup UNION {SubUnitsOf(a) : a \in AppIndexes}

C5_Witness ==
    /\ Built
    /\ \E a, p \in AppIndexes :
        /\ a < p
        /\ LastApps[a].name = <<"s">>
        /\ IsSubordinate(a)
        /\ p \in ParentsOf(a)
        /\ \E u \in Range(LastApps[p].units) :
            /\ u.subordinates = <<<<"s", "/", "0">>, <<"s", "2", "/", "0">>>>
            /\ model_info.units[<<"s", "/", "0">>] = model_info.units[u.name]
            /\ <<"s", "2", "/", "0">> \notin DOMAIN model_info.units
            /\ model_info.apps[<<"s">>] = model_info.units[u.name]

IsLiteral(term) == Range(term) \cap {"^", "$", "."} = {}

OnlyFilter(c) ==
    /\ filters[c] # <<>>
    /\ \A d \in FilterKeys \ {c} : filters[d] = <<>>

\* C6: on one grouping and with terms in one category only, the returned
\* Nodes are, for units and machines, those of the entities whose name
\* equals a term; for apps with literal terms, those of the applications
\* whose name begins with a term.
C6_Theorem ==
    (pc = "returned" /\ Len(models) = 1) =>
        /\ \A c \in {"units", "machines"} : OnlyFilter(c) =>
              Range(ret) = UNION {Range(model_info[c][e]) :
                                    e \in (DOMAIN model_info[c]) \cap Range(filters[c])}
        /\ (OnlyFilter("apps") /\ \A t \in Range(filters.apps) : IsLiteral(t)) =>
              Range(ret) = UNION {Range(model_info.apps[e]) :
                                    e \in {x \in DOMAIN model_info.apps :
                                            \E t \in Range(filters.apps) :
                                                StartsWith(x, t)}}

C6_Witness ==
    /\ pc = "returned"
    /\ Len(models) = 1
    /\ OnlyFilter("machines")
    /\ filters.machines = <<<<"0">>>>
    /\ {<<"0">>, <<"1", "0">>, Container} \subseteq DOMAIN model_info.machines
    /\ ret = <<LastModel \o <<":", "0">>>>

\* C7: in a built Index every machine m of the machines section of the
\* document has machines[m] = [g:m]; with the single filter machines=[m] on
\* one grouping the returned list is [g:m].
C7_Theorem ==
    Built =>
        /\ \A m \in Range(LastDoc.machines) :
              /\ m \in DOMAIN model_info.machines
              /\ model_info.machines[m] = <<LastModel \o <<":">> \o m>>
        /\ (/\ pc = "returned" /\ Len(models) = 1
            /\ OnlyFilter("machines") /\ Len(filters.machines) = 1
            /\ filters.machines[1] \in Range(LastDoc.machines)) =>
              ret = <<LastModel \o <<":">> \o filters.machines[1]>>

C7_Witness ==
    /\ pc = "returned"
    /\ Len(models) = 1
    /\ LastApps = <<>>
    /\ LastDoc.machines = <<Container>>
    /\ filters.machines = <<Container>>
    /\ ret = <<LastModel \o <<":">> \o Container>>

\* C8: building the Index never raises on a document whose applications
\* have optional units and optional subordinate-to lists naming applications
\* of the document.
C8_Claim == exc # <<"KeyError">>

HasNoPresence(a) == ~LastApps[a].hasUnits /\ ~LastApps[a].hasSubTo

\* C9 as stated: an application with no units and no subordinate-to is not
\* a key of the apps category of the built Index.
C9_Claim ==
    Built => \A a \in AppIndexes :
                HasNoPresence(a) => LastApps[a].name \notin DOMAIN model_info.apps

\* C9 amended: an application with no units and no subordinate-to is a key
\* of the apps category of the built Index, with an empty list of Nodes.
C9_Theorem ==
    Built => \A a \in AppIndexes :
                HasNoPresence(a) =>
                    /\ LastApps[a].name \in DOMAIN model_info.apps
                    /\ model_info.apps[LastApps[a].name] = <<>>

C9_Witness ==
    /\ Built
    /\ \E a \in AppIndexes : HasNoPresence(a)
    /\ \E a \in AppIndexes : LastApps[a].hasUnits

\* C10: for a text holding an opening brace the Normalizer returns the text
\* from its first opening brace on, and a second run changes nothing.
C10_Claim ==
    /\ (pc = "clean" /\ "{" \in Range(text)) =>
          cleaned = SubSeq(text, Find(text, "{", 1), Len(text))
    /\ pc = "again" => cleaned = text

====
